---- MODULE Spec2Model ----
(***************************************************************************)
(* gitstats: the commit statistics pipeline of src/gitstats/parser.py and  *)
(* the `stats` command of src/gitstats/cli.py.                             *)
(*                                                                         *)
(* Representation of Python values:                                        *)
(*   str       a sequence of one-character strings                         *)
(*   date      its proleptic Gregorian ordinal (date.toordinal())          *)
(*   datetime  [ord, hour, off]: local calendar date, local hour and UTC   *)
(*             offset in hours (git's %aI always carries the offset)       *)
(*   float     count / total * 100 is kept as the exact fraction           *)
(*             [num |-> count * 100, den |-> total]                        *)
(*   dict      a record; list a sequence; Counter a sequence of            *)
(*             [key, n] pairs in insertion order                           *)
(***************************************************************************)
EXTENDS Integers, Sequences, FiniteSets, TLC

VARIABLES
    argv,           \* command line of the run: path state, since, until, author, top, json_output
    pc,             \* position of stats() in its body
    since_date,     \* cli.py:87  parsed --since, or None
    until_date,     \* cli.py:88  parsed --until, or None
    stats_data,     \* cli.py:104 result of get_commit_stats, later rebuilt at cli.py:138
    commits,        \* cli.py:114 the active commit list
    filters_applied,\* cli.py:115
    streaks,        \* cli.py:148
    output,         \* what the run printed
    exit_code,      \* None while running, 0 on return, 1 on typer.Exit(1)
    arg,            \* arguments of a direct call of one parser/filter function
    ret             \* its return value

vars == <<argv, pc, since_date, until_date, stats_data, commits, filters_applied,
          streaks, output, exit_code, arg, ret>>

\* Optional values: None is the empty tuple, a present value x is <<x>>.
None == << >>
Some(x) == <<x>>

(***************************************************************************)
(* Sequence helpers (list operations of the Python runtime).               *)
(***************************************************************************)
Range(s) == {s[i] : i \in 1..Len(s)}

\* list slice s[:n] for n >= 0
Take(s, n) == SubSeq(s, 1, IF n < Len(s) THEN n ELSE Len(s))

\* list slice s[:n] for any integer n (negative n drops the last -n items)
SliceTo(s, n) ==
    IF n >= 0 THEN Take(s, n)
    ELSE IF Len(s) + n > 0 THEN SubSeq(s, 1, Len(s) + n) ELSE << >>

RECURSIVE SumSeq(_)
SumSeq(s) == IF s = << >> THEN 0 ELSE Head(s) + SumSeq(Tail(s))

\* all sequences over S of length 0..n
SeqsUpTo(S, n) == UNION {[1..k -> S] : k \in 0..n}

Max(S) == CHOOSE x \in S : \A y \in S : y <= x
Min(S) == CHOOSE x \in S : \A y \in S : x <= y

(***************************************************************************)
(* Calendar arithmetic of datetime.date.                                   *)
(***************************************************************************)
IsLeap(y) == y % 4 = 0 /\ (y % 100 /= 0 \/ y % 400 = 0)

DaysInMonth(y, m) ==
    IF m = 2 THEN (IF IsLeap(y) THEN 29 ELSE 28)
    ELSE IF m \in {4, 6, 9, 11} THEN 30 ELSE 31

DaysBeforeYear(y) == (y - 1) * 365 + (y - 1) \div 4 - (y - 1) \div 100 + (y - 1) \div 400

RECURSIVE DaysBeforeMonth(_, _)
DaysBeforeMonth(y, m) ==
    IF m = 1 THEN 0 ELSE DaysBeforeMonth(y, m - 1) + DaysInMonth(y, m - 1)

\* date(y, m, d).toordinal()
Ymd2Ord(y, m, d) == DaysBeforeYear(y) + DaysBeforeMonth(y, m) + d

\* date.fromordinal(n) as [y, m, d]
Ord2Ymd(n) ==
    LET n0   == n - 1
        n400 == n0 \div 146097
        r400 == n0 % 146097
        n100 == r400 \div 36524
        r100 == r400 % 36524
        n4   == r100 \div 1461
        r4   == r100 % 1461
        n1   == r4 \div 365
        r1   == r4 % 365
        year == n400 * 400 + n100 * 100 + n4 * 4 + n1 + 1
    IN  IF n1 = 4 \/ n100 = 4
        THEN [y |-> year - 1, m |-> 12, d |-> 31]
        ELSE LET mm == CHOOSE m \in 1..12 :
                         /\ DaysBeforeMonth(year, m) <= r1
                         /\ r1 < DaysBeforeMonth(year, m) + DaysInMonth(year, m)
             IN  [y |-> year, m |-> mm, d |-> r1 - DaysBeforeMonth(year, mm) + 1]

\* date.weekday(): 0 = Monday .. 6 = Sunday
Weekday(ord) == (ord + 6) % 7

(***************************************************************************)
(* Text: str.lower, the `in` substring test, strftime and strptime for     *)
(* the format "%Y-%m-%d".                                                  *)
(***************************************************************************)
UpperLetters == <<"A","B","C","D","E","F","G","H","I","J","K","L","M",
                  "N","O","P","Q","R","S","T","U","V","W","X","Y","Z">>
LowerLetters == <<"a","b","c","d","e","f","g","h","i","j","k","l","m",
                  "n","o","p","q","r","s","t","u","v","w","x","y","z">>

LowerChar(c) ==
    IF \E i \in 1..26 : UpperLetters[i] = c
    THEN LowerLetters[CHOOSE i \in 1..26 : UpperLetters[i] = c]
    ELSE c

\* s.lower()
Lower(s) == [i \in 1..Len(s) |-> LowerChar(s[i])]

\* needle in hay
Contains(hay, needle) ==
    \E k \in 0..(Len(hay) - Len(needle)) :
        \A i \in 1..Len(needle) : hay[k + i] = needle[i]

Digits == <<"0","1","2","3","4","5","6","7","8","9">>
DigitChar(n) == Digits[n + 1]
IsDigit(c) == \E i \in 1..10 : Digits[i] = c
DigitVal(c) == (CHOOSE i \in 1..10 : Digits[i] = c) - 1

\* "%04d" and "%02d"
Pad4(n) == <<DigitChar((n \div 1000) % 10), DigitChar((n \div 100) % 10),
             DigitChar((n \div 10) % 10), DigitChar(n % 10)>>
Pad2(n) == <<DigitChar((n \div 10) % 10), DigitChar(n % 10)>>

\* d.strftime("%Y-%m-%d") of the date with ordinal ord
Strftime(ord) ==
    LET t == Ord2Ymd(ord)
    IN  Pad4(t.y) \o <<"-">> \o Pad2(t.m) \o <<"-">> \o Pad2(t.d)

RECURSIVE NumVal(_)
NumVal(s) == IF s = << >> THEN 0 ELSE NumVal(SubSeq(s, 1, Len(s) - 1)) * 10 + DigitVal(s[Len(s)])

AllDigits(s) == \A i \in 1..Len(s) : IsDigit(s[i])

\* the value of a %d field, which may be written " 8"
DayVal(ds) == NumVal(IF Len(ds) = 2 /\ ds[1] = " " THEN Tail(ds) ELSE ds)

\* datetime.strptime(s, "%Y-%m-%d"): Some(ordinal of the parsed date), the time
\* being midnight, or ValueError. %Y takes four digits, %m and %d one or two (%d also a blank and a digit).
ValueError == << >>
Strptime(s) ==
    LET dashes == {i \in 1..Len(s) : s[i] = "-"}
    IN  IF Cardinality(dashes) /= 2 THEN ValueError
        ELSE LET i1 == Min(dashes)
                 i2 == Max(dashes)
                 ys == SubSeq(s, 1, i1 - 1)
                 ms == SubSeq(s, i1 + 1, i2 - 1)
                 ds == SubSeq(s, i2 + 1, Len(s))
             IN  IF /\ Len(ys) = 4 /\ AllDigits(ys)
                    /\ Len(ms) \in {1, 2} /\ AllDigits(ms)
                    /\ Len(ds) \in {1, 2}
                    /\ AllDigits(IF Len(ds) = 2 /\ ds[1] = " " THEN Tail(ds) ELSE ds)
                    /\ NumVal(ys) >= 1
                    /\ NumVal(ms) \in 1..12
                    /\ DayVal(ds) >= 1
                    /\ DayVal(ds) <= DaysInMonth(NumVal(ys), NumVal(ms))
                 THEN Some(Ymd2Ord(NumVal(ys), NumVal(ms), DayVal(ds)))
                 ELSE ValueError

(***************************************************************************)
(* Counter and the sorts of the Python runtime.                            *)
(***************************************************************************)
\* Counter: counting k either bumps its entry in place or appends a new one
CounterAdd(cnt, k) ==
    IF \E i \in 1..Len(cnt) : cnt[i].key = k
    THEN [i \in 1..Len(cnt) |-> IF cnt[i].key = k
                                THEN [key |-> k, n |-> cnt[i].n + 1]
                                ELSE cnt[i]]
    ELSE Append(cnt, [key |-> k, n |-> 1])

\* Counter(iterable): entries in order of first occurrence
RECURSIVE CounterOf(_)
CounterOf(keys) ==
    IF keys = << >> THEN << >>
    ELSE CounterAdd(CounterOf(SubSeq(keys, 1, Len(keys) - 1)), keys[Len(keys)])

\* counter.get(k, 0)
CounterGet(cnt, k) ==
    IF \E i \in 1..Len(cnt) : cnt[i].key = k
    THEN cnt[CHOOSE i \in 1..Len(cnt) : cnt[i].key = k].n
    ELSE 0

\* insert e behind every element whose n is >= e.n (stable, descending)
InsertDesc(sorted, e) ==
    LET k == Cardinality({i \in 1..Len(sorted) : sorted[i].n >= e.n})
    IN  SubSeq(sorted, 1, k) \o <<e>> \o SubSeq(sorted, k + 1, Len(sorted))

\* most_common with equal counts coming out in reverse order of insertion
RECURSIVE MostCommonTiesReversed(_)
MostCommonTiesReversed(cnt) ==
    IF cnt = << >> THEN << >>
    ELSE LET sorted == MostCommonTiesReversed(SubSeq(cnt, 1, Len(cnt) - 1))
             e      == cnt[Len(cnt)]
             k      == Cardinality({i \in 1..Len(sorted) : sorted[i].n > e.n})
         IN  SubSeq(sorted, 1, k) \o <<e>> \o SubSeq(sorted, k + 1, Len(sorted))

\* Counter.most_common(): sorted(items, key=count, reverse=True), a stable sort
RECURSIVE MostCommon(_)
MostCommon(cnt) ==
    IF cnt = << >> THEN << >>
    ELSE InsertDesc(MostCommon(SubSeq(cnt, 1, Len(cnt) - 1)), cnt[Len(cnt)])

\* the instant of an aware datetime, in hours: what == and < compare
Instant(dt) == dt.ord * 24 + dt.hour - dt.off

\* dt.replace(tzinfo=None): the wall-clock reading, in hours
Naive(dt) == dt.ord * 24 + dt.hour

InsertByDate(sorted, c) ==
    LET k == Cardinality({i \in 1..Len(sorted) : Instant(sorted[i].date) <= Instant(c.date)})
    IN  SubSeq(sorted, 1, k) \o <<c>> \o SubSeq(sorted, k + 1, Len(sorted))

\* the sort with the UTC offset ignored: ascending by wall-clock reading
RECURSIVE SortByWallClock(_)
SortByWallClock(cs) ==
    IF cs = << >> THEN << >>
    ELSE LET sorted == SortByWallClock(SubSeq(cs, 1, Len(cs) - 1))
             c      == cs[Len(cs)]
             k      == Cardinality({i \in 1..Len(sorted) : Naive(sorted[i].date) <= Naive(c.date)})
         IN  SubSeq(sorted, 1, k) \o <<c>> \o SubSeq(sorted, k + 1, Len(sorted))

\* commits.sort(key=lambda x: x["date"]): stable, ascending by instant
RECURSIVE SortByDate(_)
SortByDate(cs) ==
    IF cs = << >> THEN << >>
    ELSE InsertByDate(SortByDate(SubSeq(cs, 1, Len(cs) - 1)), cs[Len(cs)])

\* sorted(set_of_ints)
RECURSIVE SortedSet(_)
SortedSet(S) ==
    IF S = {} THEN << >>
    ELSE LET m == Min(S) IN <<m>> \o SortedSet(S \ {m})

\* count / total * 100
Pct(count, total) == [num |-> count * 100, den |-> total]
\* the literal 0 of `... if total else 0`
PctZero == [num |-> 0, den |-> 1]

(***************************************************************************)
(* parser.py                                                               *)
(***************************************************************************)
\* get_author_stats grouping by the lower-cased name
get_author_stats_case_folded(cs) ==
    LET author_counts == CounterOf([i \in 1..Len(cs) |-> Lower(cs[i].author)])
        total         == Len(cs)
        ranked        == MostCommon(author_counts)
    IN  [i \in 1..Len(ranked) |->
            [author     |-> ranked[i].key,
             commits    |-> ranked[i].n,
             percentage |-> Pct(ranked[i].n, total)]]

\* parser.py get_author_stats
get_author_stats(cs) ==
    LET author_counts == CounterOf([i \in 1..Len(cs) |-> cs[i].author])
        total         == Len(cs)
        ranked        == MostCommon(author_counts)
    IN  [i \in 1..Len(ranked) |->
            [author     |-> ranked[i].key,
             commits    |-> ranked[i].n,
             percentage |-> Pct(ranked[i].n, total)]]

days == <<"Mon", "Tue", "Wed", "Thu", "Fri", "Sat", "Sun">>

\* get_weekly_activity with the week starting on Sunday
get_weekly_activity_sunday_first(cs) ==
    LET day_counts == CounterOf([i \in 1..Len(cs) |-> (Weekday(cs[i].date.ord) + 1) % 7])
        total      == Len(cs)
    IN  [k \in 1..7 |->
            [day        |-> days[k],
             commits    |-> CounterGet(day_counts, k - 1),
             percentage |-> IF total /= 0
                            THEN Pct(CounterGet(day_counts, k - 1), total)
                            ELSE PctZero]]

\* parser.py get_weekly_activity
get_weekly_activity(cs) ==
    LET day_counts == CounterOf([i \in 1..Len(cs) |-> Weekday(cs[i].date.ord)])
        total      == Len(cs)
    IN  [k \in 1..7 |->
            [day        |-> days[k],
             commits    |-> CounterGet(day_counts, k - 1),
             percentage |-> IF total /= 0
                            THEN Pct(CounterGet(day_counts, k - 1), total)
                            ELSE PctZero]]

\* parser.py get_hourly_activity
get_hourly_activity(cs) ==
    LET hour_counts == CounterOf([i \in 1..Len(cs) |-> cs[i].date.hour])
        total       == Len(cs)
    IN  [k \in 1..24 |->
            [hour       |-> k - 1,
             commits    |-> CounterGet(hour_counts, k - 1),
             percentage |-> IF total /= 0
                            THEN Pct(CounterGet(hour_counts, k - 1), total)
                            ELSE PctZero]]

\* the loop without the append of the final run after it
RECURSIVE StreakWalkDropsLastRun(_, _, _, _)
StreakWalkDropsLastRun(commit_dates, i, streak_list, current_streak) ==
    IF i > Len(commit_dates) THEN streak_list
    ELSE IF commit_dates[i] - commit_dates[i - 1] = 1
         THEN StreakWalkDropsLastRun(commit_dates, i + 1, streak_list, current_streak + 1)
         ELSE StreakWalkDropsLastRun(commit_dates, i + 1, Append(streak_list, current_streak), 1)

\* the loop of parser.py:216-223: the list of run lengths, final run appended
RECURSIVE StreakWalk(_, _, _, _)
StreakWalk(commit_dates, i, streak_list, current_streak) ==
    IF i > Len(commit_dates) THEN Append(streak_list, current_streak)
    ELSE IF commit_dates[i] - commit_dates[i - 1] = 1
         THEN StreakWalk(commit_dates, i + 1, streak_list, current_streak + 1)
         ELSE StreakWalk(commit_dates, i + 1, Append(streak_list, current_streak), 1)

\* parser.py get_commit_streaks; today is the value of date.today()
get_commit_streaks(cs, today) ==
    IF cs = << >>
    THEN [current_streak |-> 0, longest_streak |-> 0, total_active_days |-> 0]
    ELSE
    LET commit_dates     == SortedSet({cs[i].date.ord : i \in 1..Len(cs)})
        streak_list      == StreakWalk(commit_dates, 2, << >>, 1)
        longest_streak   == IF streak_list /= << >> THEN Max(Range(streak_list)) ELSE 0
        last_commit_date == commit_dates[Len(commit_dates)]
        days_since_last  == today - last_commit_date
        active_streak    == IF days_since_last <= 1
                            THEN (IF streak_list /= << >>
                                  THEN streak_list[Len(streak_list)] ELSE 0)
                            ELSE 0
    IN  [current_streak    |-> active_streak,
         longest_streak    |-> longest_streak,
         total_active_days |-> Len(commit_dates),
         last_commit_date  |-> Strftime(last_commit_date)]

\* One line of `git log --format=%H|%an|%ae|%aI` is kept as the list of its
\* "|"-separated parts; the %aI part stands for the datetime it denotes.
EmptyLine == << << >> >>

\* parser.py get_commit_stats; repo is what the path resolves to:
\* [has_git, log_ok, lines], lines being stdout.strip().split("\n")
get_commit_stats(repo) ==
    IF ~repo.has_git THEN None
    ELSE IF ~repo.log_ok THEN None
    ELSE IF repo.lines = << >> \/ repo.lines[1] = EmptyLine THEN None
    ELSE
    LET wellformed == SelectSeq(repo.lines, LAMBDA line : line /= EmptyLine /\ Len(line) >= 4)
        parsed     == [i \in 1..Len(wellformed) |->
                          [hash   |-> wellformed[i][1],
                           author |-> wellformed[i][2],
                           email  |-> wellformed[i][3],
                           date   |-> wellformed[i][4]]]
        authors    == {parsed[i].author : i \in 1..Len(parsed)}
        sorted     == SortByDate(parsed)
    IN  IF parsed = << >> THEN None
        ELSE Some([total_commits |-> Len(sorted),
                   total_authors |-> Cardinality(authors),
                   first_commit  |-> Strftime(sorted[1].date.ord),
                   last_commit   |-> Strftime(sorted[Len(sorted)].date.ord),
                   commits       |-> sorted,
                   authors       |-> authors,
                   author_stats  |-> get_author_stats(sorted)])

(***************************************************************************)
(* cli.py: the two filters                                                 *)
(***************************************************************************)
\* cli.py _filter_commits_by_author
filter_commits_by_author(cs, author) ==
    LET author_lower == Lower(author)
    IN  SelectSeq(cs, LAMBDA c : Contains(Lower(c.author), author_lower))

\* the date filter with the until day cut off at its midnight
filter_commits_by_date_until_exclusive(cs, since, until) ==
    LET after_since ==
            IF since /= None
            THEN SelectSeq(cs, LAMBDA c : Naive(c.date) >= since[1] * 24)
            ELSE cs
    IN  IF until /= None
        THEN SelectSeq(after_since, LAMBDA c : Naive(c.date) < until[1] * 24)
        ELSE after_since

\* cli.py _filter_commits_by_date; since/until are optional midnight datetimes
filter_commits_by_date(cs, since, until) ==
    LET after_since ==
            IF since /= None
            THEN SelectSeq(cs, LAMBDA c : Naive(c.date) >= since[1] * 24)
            ELSE cs
    IN  IF until /= None
        THEN LET until_end == (until[1] + 1) * 24
             IN  SelectSeq(after_since, LAMBDA c : Naive(c.date) < until_end)
        ELSE after_since

(***************************************************************************)
(* Bounds and the inputs drawn from them.                                  *)
(***************************************************************************)
MaxLines    == 2   \* lines of git log output in a run of the command
MaxFiltered == 2   \* commits in a direct call of the filters
MaxAuthored == 4   \* commits in a direct call of get_author_stats
MaxCommits  == 3   \* commits in a direct call of the temporal and streak functions
MaxDays     == 4   \* width of the window of calendar dates of the streak calls

Alice   == <<"A","l","i","c","e">>
alice   == <<"a","l","i","c","e">>
Bob     == <<"B","o","b">>
Natalie == <<"N","a","t","a","l","i","e">>

EmailOf(author) == Lower(author) \o <<"@","x">>

\* 2024-02-27, a Tuesday; the window runs over the leap day into March
BaseOrd == Ymd2Ord(2024, 2, 27)

Stamp(ord, hour, off) == [ord |-> ord, hour |-> hour, off |-> off]

\* commit lists: position i gets hash i
MkCommits(pairs) ==
    [i \in 1..Len(pairs) |->
        [hash |-> i, author |-> pairs[i][1], email |-> EmailOf(pairs[i][1]),
         date |-> pairs[i][2]]]

CommitLists(authors, stamps, n) ==
    {MkCommits(p) : p \in SeqsUpTo(authors \X stamps, n)}

\* The run of the command.  Stamps whose order by instant differs from the
\* order of their local dates: 02-27 23:00-02:00 is later than 02-28 00:00+02:00.
RunStamps == {Stamp(BaseOrd, 23, -2), Stamp(BaseOrd + 1, 0, 2), Stamp(BaseOrd + 2, 12, 0)}
RunAuthors == {Alice, Bob}
MalformedLine == << <<"x">>, <<"y">> >>
RunLines ==
    {<<a, EmailOf(a), t>> : a \in RunAuthors, t \in RunStamps \ {Stamp(BaseOrd + 2, 12, 0)}}
    \cup {<<Bob, EmailOf(Bob), Stamp(BaseOrd + 2, 12, 0)>>, MalformedLine}
\* a well-formed line at position i carries hash i
WithHashes(ls) ==
    [i \in 1..Len(ls) |-> IF ls[i] = MalformedLine THEN ls[i] ELSE <<i>> \o ls[i]]
Repos(n) ==
    {[has_git |-> FALSE, log_ok |-> TRUE, lines |-> <<EmptyLine>>],
     [has_git |-> TRUE, log_ok |-> FALSE, lines |-> <<EmptyLine>>],
     [has_git |-> TRUE, log_ok |-> TRUE, lines |-> <<EmptyLine>>]}
    \cup {[has_git |-> TRUE, log_ok |-> TRUE, lines |-> WithHashes(ls)] :
             ls \in SeqsUpTo(RunLines, n) \ {<< >>}}
DateOptions ==
    {<<None, None>>,
     <<None, Some(<<"2","0","2","4","-","2","-","2","8">>)>>,
     <<Some(Strftime(BaseOrd + 1)), Some(Strftime(BaseOrd + 1))>>,
     <<Some(Strftime(BaseOrd + 3)), None>>,
     <<Some(<<"2","0","2","4","-","0","2","-","3","0">>), None>>,
     <<Some(<< >>), None>>,
     <<Some(<< >>), Some(<<"t","o","d","a","y">>)>>}
AuthorOptions == {None, Some(<<"B">>), Some(<<"z">>)}
TopOptions == {None, Some(-1), Some(0), Some(1), Some(2)}
Argvs(n) ==
    {[path |-> r, json_output |-> j, since |-> d[1], until |-> d[2],
      author |-> a, top |-> t] :
        r \in Repos(n), j \in BOOLEAN, d \in DateOptions, a \in AuthorOptions, t \in TopOptions}
Todays == {BaseOrd + 1, BaseOrd + 3}

\* Direct calls of the filters (cli.py:113-123)
FilterStamps == {Stamp(d, h, 0) : d \in {BaseOrd, BaseOrd + 1}, h \in {0, 23}}
FilterArgs(n) ==
    {[fn |-> "apply_filters", commits |-> cs, since |-> s, until |-> u, author |-> a] :
        cs \in CommitLists({Alice, Bob, Natalie}, FilterStamps, n),
        s \in {None, Some(BaseOrd), Some(BaseOrd + 1), Some(BaseOrd + 2)},
        u \in {None, Some(BaseOrd - 1), Some(BaseOrd), Some(BaseOrd + 1)},
        a \in {None, Some(<< >>), Some(<<"a","l","i">>), Some(<<"A","L","I">>),
               Some(<<"z">>)}}

\* Direct calls of get_author_stats
AuthorArgs(n) ==
    {[fn |-> "get_author_stats", commits |-> cs] :
        cs \in CommitLists({Alice, alice, Bob, Natalie}, {Stamp(BaseOrd, 9, 0)}, n)}

\* Direct calls of get_weekly_activity and get_hourly_activity: the seven
\* days from Monday 2024-02-26 to Sunday 2024-03-03
TemporalStamps == {Stamp(d, h, 0) : d \in (BaseOrd - 1)..(BaseOrd + 5), h \in {0, 23}}
TemporalArgs(n) ==
    {[fn |-> f, commits |-> cs] :
        f \in {"get_weekly_activity", "get_hourly_activity"},
        cs \in CommitLists({Alice}, TemporalStamps, n)}

\* Direct calls of get_commit_streaks, with the date the clock shows
StreakStamps(width) == {Stamp(d, h, 0) : d \in BaseOrd..(BaseOrd + width - 1), h \in {9, 23}}
StreakArgs(n, width) ==
    {[fn |-> "get_commit_streaks", commits |-> cs, today |-> t] :
        cs \in CommitLists({Alice}, StreakStamps(width), n),
        t \in (BaseOrd - 1)..(BaseOrd + width + 1)}

(***************************************************************************)
(* cli.py: the stats command                                               *)
(***************************************************************************)
\* Python truthiness of an optional str / optional int option value
TruthyStr(o) == o /= None /\ o[1] /= << >>
TruthyInt(o) == o /= None /\ o[1] /= 0

\* the filters with the author filter left out of filters_applied
apply_filters_author_unrecorded(cs, since, until, author) ==
    LET by_date  == IF since /= None \/ until /= None
                    THEN filter_commits_by_date(cs, since, until) ELSE cs
        f_date   == IF since /= None \/ until /= None THEN <<"date">> ELSE << >>
        by_auth  == IF TruthyStr(author)
                    THEN filter_commits_by_author(by_date, author[1]) ELSE by_date
    IN  [commits |-> by_auth, filters_applied |-> f_date]

\* cli.py:113-123: the date filter and then the author filter, each if supplied
apply_filters(cs, since, until, author) ==
    LET by_date  == IF since /= None \/ until /= None
                    THEN filter_commits_by_date(cs, since, until) ELSE cs
        f_date   == IF since /= None \/ until /= None THEN <<"date">> ELSE << >>
        by_auth  == IF TruthyStr(author)
                    THEN filter_commits_by_author(by_date, author[1]) ELSE by_date
        f_auth   == IF TruthyStr(author) THEN <<"author">> ELSE << >>
    IN  [commits |-> by_auth, filters_applied |-> f_date \o f_auth]

\* the rebuild that leaves the author statistics of the unfiltered log
recalculate_keeps_author_stats(sd, cs, applied) ==
    IF applied /= << >>
    THEN LET unique_authors == {cs[i].author : i \in 1..Len(cs)}
         IN  [sd EXCEPT !.commits       = cs,
                        !.total_commits = Len(cs),
                        !.total_authors = Cardinality(unique_authors),
                        !.first_commit  = Strftime(cs[1].date.ord),
                        !.last_commit   = Strftime(cs[Len(cs)].date.ord)]
    ELSE sd

\* cli.py:134-146: the statistics rebuilt from the filtered commits
recalculate(sd, cs, applied) ==
    IF applied /= << >>
    THEN LET unique_authors == {cs[i].author : i \in 1..Len(cs)}
         IN  [sd EXCEPT !.commits       = cs,
                        !.total_commits = Len(cs),
                        !.total_authors = Cardinality(unique_authors),
                        !.first_commit  = Strftime(cs[1].date.ord),
                        !.last_commit   = Strftime(cs[Len(cs)].date.ord),
                        !.author_stats  = get_author_stats(cs)]
    ELSE sd

\* cli.py:164: the "authors" entry of the JSON document
json_authors(author_stats, top) ==
    IF TruthyInt(top) THEN SliceTo(author_stats, top[1]) ELSE author_stats

\* cli.py:196-198: the rows handed to _print_author_table
table_authors(author_stats, top) ==
    IF TruthyInt(top) /\ top[1] > 0 THEN SliceTo(author_stats, top[1]) ELSE author_stats

\* cli.py:213-214: the "(top N of M)" suffix of the table title
table_title_top(top, total) ==
    IF TruthyInt(top) /\ total /= 0 /\ top[1] < total THEN Some(<<top[1], total>>) ELSE None

InsertByCommitsDesc(sorted, e) ==
    LET k == Cardinality({i \in 1..Len(sorted) : sorted[i].commits >= e.commits})
    IN  SubSeq(sorted, 1, k) \o <<e>> \o SubSeq(sorted, k + 1, Len(sorted))

RECURSIVE SortByCommitsDesc(_)
SortByCommitsDesc(s) ==
    IF s = << >> THEN << >>
    ELSE InsertByCommitsDesc(SortByCommitsDesc(SubSeq(s, 1, Len(s) - 1)), s[Len(s)])

\* cli.py:259-270: the peak hours printed (at most three, none with 0 commits)
peak_hours(cs) ==
    LET top3 == Take(SortByCommitsDesc(get_hourly_activity(cs)), 3)
    IN  IF top3 /= << >> /\ top3[1].commits > 0
        THEN SelectSeq(top3, LAMBDA h : h.commits > 0)
        ELSE << >>

\* cli.py:176-184
filter_parts(applied, since, until, author) ==
    IF applied = << >> THEN None
    ELSE Some((IF since /= None THEN <<Strftime(since[1])>> ELSE << >>)
           \o (IF until /= None THEN <<Strftime(until[1])>> ELSE << >>)
           \o (IF TruthyStr(author) THEN <<author[1]>> ELSE << >>))

\* cli.py:152-168
json_document(a, sd, since, until, strk) ==
    [kind            |-> "json",
     total_commits   |-> sd.total_commits,
     total_authors   |-> sd.total_authors,
     first_commit    |-> sd.first_commit,
     last_commit     |-> sd.last_commit,
     filters         |-> [since  |-> IF since /= None THEN Some(Strftime(since[1])) ELSE None,
                          until  |-> IF until /= None THEN Some(Strftime(until[1])) ELSE None,
                          author |-> a.author,
                          top    |-> a.top],
     authors         |-> json_authors(sd.author_stats, a.top),
     streaks         |-> strk,
     weekly_activity |-> get_weekly_activity(sd.commits),
     hourly_activity |-> get_hourly_activity(sd.commits)]

\* cli.py:173-205
terminal_report(a, sd, applied, since, until, strk) ==
    [kind            |-> "terminal",
     filtered        |-> filter_parts(applied, since, until, a.author),
     total_commits   |-> sd.total_commits,
     total_authors   |-> sd.total_authors,
     first_commit    |-> sd.first_commit,
     last_commit     |-> sd.last_commit,
     authors         |-> IF sd.author_stats /= << >>
                         THEN table_authors(sd.author_stats, a.top) ELSE << >>,
     title_top       |-> IF sd.author_stats /= << >>
                         THEN table_title_top(a.top, Len(sd.author_stats)) ELSE None,
     weekly_activity |-> get_weekly_activity(sd.commits),
     peak_hours      |-> peak_hours(sd.commits),
     streaks         |-> [current_streak    |-> strk.current_streak,
                          longest_streak    |-> strk.longest_streak,
                          total_active_days |-> strk.total_active_days]]

ErrInvalidSince == "Invalid date format for --since"
ErrInvalidUntil == "Invalid date format for --until"
ErrNoRepo       == "No commits found or not a git repository"
ErrNoMatch      == "No commits found matching the specified filters"

ErrorOut(msg) == [kind |-> "error", error |-> msg]

\* cli.py:86-102
ParseDates ==
    /\ pc = "parse_dates"
    /\ LET s == IF TruthyStr(argv.since) THEN Strptime(argv.since[1]) ELSE None
           u == IF TruthyStr(argv.until) THEN Strptime(argv.until[1]) ELSE None
       IN  IF TruthyStr(argv.since) /\ s = ValueError
           THEN /\ output' = ErrorOut(ErrInvalidSince)
                /\ exit_code' = Some(1)
                /\ pc' = "done"
                /\ UNCHANGED <<since_date, until_date>>
           ELSE IF TruthyStr(argv.until) /\ u = ValueError
           THEN /\ output' = ErrorOut(ErrInvalidUntil)
                /\ exit_code' = Some(1)
                /\ pc' = "done"
                /\ since_date' = s
                /\ UNCHANGED until_date
           ELSE /\ since_date' = s
                /\ until_date' = u
                /\ pc' = "load"
                /\ UNCHANGED <<output, exit_code>>
    /\ UNCHANGED <<argv, stats_data, commits, filters_applied, streaks, arg, ret>>

\* cli.py:104-111
LoadStats ==
    /\ pc = "load"
    /\ stats_data' = get_commit_stats(argv.path)
    /\ IF stats_data' = None
       THEN /\ output' = ErrorOut(ErrNoRepo)
            /\ exit_code' = Some(1)
            /\ pc' = "done"
       ELSE /\ pc' = "filter"
            /\ UNCHANGED <<output, exit_code>>
    /\ UNCHANGED <<argv, since_date, until_date, commits, filters_applied, streaks, arg, ret>>

\* cli.py:113-131
FilterCommits ==
    /\ pc = "filter"
    /\ LET f == apply_filters(stats_data[1].commits, since_date, until_date, argv.author)
       IN  /\ commits' = f.commits
           /\ filters_applied' = f.filters_applied
           /\ IF f.filters_applied /= << >> /\ f.commits = << >>
              THEN /\ output' = ErrorOut(ErrNoMatch)
                   /\ exit_code' = Some(1)
                   /\ pc' = "done"
              ELSE /\ pc' = "recalc"
                   /\ UNCHANGED <<output, exit_code>>
    /\ UNCHANGED <<argv, since_date, until_date, stats_data, streaks, arg, ret>>

\* cli.py:133-148; date.today() is read inside get_commit_streaks
Recalculate ==
    /\ pc = "recalc"
    /\ stats_data' = Some(recalculate(stats_data[1], commits, filters_applied))
    /\ \E today \in Todays :
          streaks' = get_commit_streaks(stats_data'[1].commits, today)
    /\ pc' = "emit"
    /\ UNCHANGED <<argv, since_date, until_date, commits, filters_applied,
                   output, exit_code, arg, ret>>

\* cli.py:150-170
EmitJson ==
    /\ pc = "emit"
    /\ argv.json_output
    /\ output' = json_document(argv, stats_data[1], since_date, until_date, streaks)
    /\ exit_code' = Some(0)
    /\ pc' = "done"
    /\ UNCHANGED <<argv, since_date, until_date, stats_data, commits, filters_applied,
                   streaks, arg, ret>>

\* cli.py:172-205
EmitTerminal ==
    /\ pc = "emit"
    /\ ~argv.json_output
    /\ output' = terminal_report(argv, stats_data[1], filters_applied,
                                 since_date, until_date, streaks)
    /\ exit_code' = Some(0)
    /\ pc' = "done"
    /\ UNCHANGED <<argv, since_date, until_date, stats_data, commits, filters_applied,
                   streaks, arg, ret>>

Next ==
    \/ ParseDates
    \/ LoadStats
    \/ FilterCommits
    \/ Recalculate
    \/ EmitJson
    \/ EmitTerminal

Init ==
    /\ argv \in Argvs(MaxLines)
    /\ pc = "parse_dates"
    /\ since_date = None
    /\ until_date = None
    /\ stats_data = None
    /\ commits = << >>
    /\ filters_applied = << >>
    /\ streaks = [current_streak |-> 0, longest_streak |-> 0, total_active_days |-> 0]
    /\ output = [kind |-> "none"]
    /\ exit_code = None
    /\ arg = [fn |-> "none"]
    /\ ret = None

Spec == Init /\ [][Next]_vars

(***************************************************************************)
(* Direct calls of the functions, one call per behaviour.                  *)
(***************************************************************************)
CliIdle ==
    /\ argv = << >>
    /\ since_date = None
    /\ until_date = None
    /\ stats_data = None
    /\ commits = << >>
    /\ filters_applied = << >>
    /\ streaks = [current_streak |-> 0, longest_streak |-> 0, total_active_days |-> 0]
    /\ output = [kind |-> "none"]
    /\ exit_code = None

CliVars == <<argv, since_date, until_date, stats_data, commits, filters_applied,
             streaks, output, exit_code>>

Return(value) ==
    /\ ret' = Some(value)
    /\ pc' = "returned"
    /\ UNCHANGED <<CliVars, arg>>

CallApplyFilters ==
    /\ pc = "call" /\ arg.fn = "apply_filters"
    /\ Return(apply_filters(arg.commits, arg.since, arg.until, arg.author))

CallAuthorStats ==
    /\ pc = "call" /\ arg.fn = "get_author_stats"
    /\ Return(get_author_stats(arg.commits))

CallWeeklyActivity ==
    /\ pc = "call" /\ arg.fn = "get_weekly_activity"
    /\ Return(get_weekly_activity(arg.commits))

CallHourlyActivity ==
    /\ pc = "call" /\ arg.fn = "get_hourly_activity"
    /\ Return(get_hourly_activity(arg.commits))

CallCommitStreaks ==
    /\ pc = "call" /\ arg.fn = "get_commit_streaks"
    /\ Return(get_commit_streaks(arg.commits, arg.today))

InitFilter == CliIdle /\ pc = "call" /\ ret = None /\ arg \in FilterArgs(MaxFiltered)
NextFilter == CallApplyFilters
SpecFilter == InitFilter /\ [][NextFilter]_vars

InitAuthor == CliIdle /\ pc = "call" /\ ret = None /\ arg \in AuthorArgs(MaxAuthored)
NextAuthor == CallAuthorStats
SpecAuthor == InitAuthor /\ [][NextAuthor]_vars

InitTemporal == CliIdle /\ pc = "call" /\ ret = None /\ arg \in TemporalArgs(MaxCommits)
NextTemporal == CallWeeklyActivity \/ CallHourlyActivity
SpecTemporal == InitTemporal /\ [][NextTemporal]_vars

InitStreak == CliIdle /\ pc = "call" /\ ret = None /\ arg \in StreakArgs(MaxCommits, MaxDays)
NextStreak == CallCommitStreaks
SpecStreak == InitStreak /\ [][NextStreak]_vars

Returned(fn) == pc = "returned" /\ arg.fn = fn

(***************************************************************************)
(* Properties                                                              *)
(***************************************************************************)
\* the i-th smallest element of a set of integers
Nth(K, i) == CHOOSE k \in K : Cardinality({j \in K : j < k}) = i - 1

\* the order-preserved subsequence of s at the positions K
Pick(s, K) == [i \in 1..Cardinality(K) |-> s[Nth(K, i)]]

\* a record with author and date passes every supplied filter
Passes(author_name, date, since, until, author) ==
    /\ since /= None => Naive(date) >= since[1] * 24
    /\ until /= None => Naive(date) < (until[1] + 1) * 24
    /\ author /= None => Contains(Lower(author_name), Lower(author[1]))

\* C1: the filtered result is exactly the order-preserved subsequence of the
\* records that satisfy all supplied predicates at once (since inclusive from
\* midnight, the whole until day included, case-insensitive author substring);
\* with no filter supplied the input comes back unchanged.
C1_FilterIsConjunctiveSubsequence ==
    Returned("apply_filters") =>
        /\ ret[1].commits =
              Pick(arg.commits,
                   {i \in 1..Len(arg.commits) :
                       Passes(arg.commits[i].author, arg.commits[i].date,
                              arg.since, arg.until, arg.author)})
        /\ (arg.since = None /\ arg.until = None /\ arg.author = None)
              => ret[1].commits = arg.commits

\* C1 witness: a date range and an author substring together keep the second
\* of two commits and drop the first.
C1_Witness ==
    /\ Returned("apply_filters")
    /\ arg.since /= None /\ arg.until /= None /\ arg.author /= None
    /\ Len(arg.commits) = 2
    /\ ret[1].commits = <<arg.commits[2]>>
    /\ ret[1].filters_applied = <<"date", "author">>

\* positions of the commits of cs written by exactly this author name
ByAuthor(cs, name) == {i \in 1..Len(cs) : cs[i].author = name}

\* C4: for a non-empty record sequence the Author Aggregator returns exactly
\* one entry per distinct authorName (exact, case-sensitive), each with
\* commitCount >= 1 and equal to that author's number of records, never
\* truncated, and the counts sum to the length of the input.
C4_OneEntryPerAuthor ==
    (Returned("get_author_stats") /\ arg.commits /= << >>) =>
        LET cs    == arg.commits
            stats == ret[1]
            names == {cs[i].author : i \in 1..Len(cs)}
        IN  /\ stats /= << >>
            /\ Len(stats) = Cardinality(names)
            /\ {stats[i].author : i \in 1..Len(stats)} = names
            /\ \A i \in 1..Len(stats) :
                  /\ stats[i].commits >= 1
                  /\ stats[i].commits = Cardinality(ByAuthor(cs, stats[i].author))
            /\ SumSeq([i \in 1..Len(stats) |-> stats[i].commits]) = Len(cs)

\* C4 witness: "Alice" and "alice" are counted as two authors.
C4_Witness ==
    /\ Returned("get_author_stats")
    /\ Len(arg.commits) = 3
    /\ \E i, j \in 1..Len(ret[1]) :
          /\ ret[1][i].author = Alice /\ ret[1][i].commits = 2
          /\ ret[1][j].author = alice /\ ret[1][j].commits = 1

\* position of the first commit of cs by this author
FirstSeen(cs, name) == Min(ByAuthor(cs, name))

\* C9: the AuthorStat list is in non-increasing order of commitCount, and
\* authors with equal commitCount appear in the order of their first
\* occurrence in the input sequence.
C9_RankedStableByFirstSeen ==
    Returned("get_author_stats") =>
        LET cs    == arg.commits
            stats == ret[1]
        IN  \A i, j \in 1..Len(stats) :
                i < j =>
                    /\ stats[i].commits >= stats[j].commits
                    /\ stats[i].commits = stats[j].commits =>
                          FirstSeen(cs, stats[i].author) < FirstSeen(cs, stats[j].author)

\* C9 witness: Bob, Alice, Alice, Natalie ranks Alice first and keeps Bob
\* ahead of Natalie.
C9_Witness ==
    /\ Returned("get_author_stats")
    /\ [i \in 1..Len(arg.commits) |-> arg.commits[i].author] = <<Bob, Alice, Alice, Natalie>>
    /\ [i \in 1..Len(ret[1]) |-> ret[1][i].author] = <<Alice, Bob, Natalie>>

\* 2024-02-26 is a Monday
MondayOrd == Ymd2Ord(2024, 2, 26)
DayIndex(ord) == (ord - MondayOrd) % 7

\* C5: for any record sequence, the empty one included, the weekly bucketing
\* gives exactly the 7 buckets Mon..Sun in index order (Monday = 0) and the
\* hourly bucketing the 24 buckets 0..23 in ascending order; no bucket is
\* left out, the counts of each bucketing sum to the input length, and for
\* empty input every count and percentage is 0.
C5_AllBucketsPresent ==
    LET cs == arg.commits
    IN  /\ Returned("get_weekly_activity") =>
              /\ Len(ret[1]) = 7
              /\ [k \in 1..7 |-> ret[1][k].day]
                    = <<"Mon", "Tue", "Wed", "Thu", "Fri", "Sat", "Sun">>
              /\ \A k \in 1..7 :
                    /\ ret[1][k].commits =
                          Cardinality({i \in 1..Len(cs) : DayIndex(cs[i].date.ord) = k - 1})
                    /\ cs = << >> => ret[1][k].commits = 0 /\ ret[1][k].percentage.num = 0
                    /\ ret[1][k].percentage.den /= 0
              /\ SumSeq([k \in 1..7 |-> ret[1][k].commits]) = Len(cs)
        /\ Returned("get_hourly_activity") =>
              /\ Len(ret[1]) = 24
              /\ \A k \in 1..24 :
                    /\ ret[1][k].hour = k - 1
                    /\ ret[1][k].commits =
                          Cardinality({i \in 1..Len(cs) : cs[i].date.hour = k - 1})
                    /\ cs = << >> => ret[1][k].commits = 0 /\ ret[1][k].percentage.num = 0
                    /\ ret[1][k].percentage.den /= 0
              /\ SumSeq([k \in 1..24 |-> ret[1][k].commits]) = Len(cs)

\* C5 witness: a Monday, a Sunday and a second Sunday commit land in the
\* first and the last weekly bucket.
C5_Witness ==
    /\ Returned("get_weekly_activity")
    /\ Len(arg.commits) = 3
    /\ ret[1][1].commits = 1
    /\ ret[1][7].commits = 2

\* the lengths of the runs of consecutive dates within a set of dates
RunLengths(D) ==
    {b - a + 1 : <<a, b>> \in {p \in D \X D : p[1] <= p[2] /\ \A x \in p[1]..p[2] : x \in D}}

\* C6: in any input order and with any number of commits per date,
\* longestStreak is the maximum length of a run of consecutive calendar
\* dates among the distinct active dates and totalActiveDays is the number
\* of those dates; for empty input both are 0 and no last date is reported.
C6_LongestStreakIsMaxRun ==
    Returned("get_commit_streaks") =>
        LET cs == arg.commits
            D  == {cs[i].date.ord : i \in 1..Len(cs)}
        IN  /\ cs = << >> =>
                  /\ ret[1].longest_streak = 0
                  /\ ret[1].total_active_days = 0
                  /\ "last_commit_date" \notin DOMAIN ret[1]
            /\ cs /= << >> =>
                  /\ ret[1].longest_streak = Max(RunLengths(D))
                  /\ ret[1].total_active_days = Cardinality(D)
                  /\ ret[1].last_commit_date = Strftime(Max(D))

\* C6 witness: three consecutive dates delivered out of order give a
\* longest streak of 3.
C6_Witness ==
    /\ Returned("get_commit_streaks")
    /\ [i \in 1..Len(arg.commits) |-> arg.commits[i].date.ord]
          = <<BaseOrd + 2, BaseOrd, BaseOrd + 1>>
    /\ ret[1].longest_streak = 3
    /\ ret[1].total_active_days = 3

\* the length of the run of consecutive dates of D that ends at its maximum
LastRun(D) == Max({n \in 1..Cardinality(D) : \A k \in 0..(n - 1) : (Max(D) - k) \in D})

\* C7: for a non-empty record sequence and any evaluation date, currentStreak
\* is the length of the run ending at the most recent active date when that
\* date is today or yesterday, and 0 in every other case.
C7_CurrentStreakOnlyTodayOrYesterday ==
    (Returned("get_commit_streaks") /\ arg.commits /= << >>) =>
        LET cs == arg.commits
            D  == {cs[i].date.ord : i \in 1..Len(cs)}
        IN  ret[1].current_streak =
                IF Max(D) \in {arg.today, arg.today - 1} THEN LastRun(D) ELSE 0

\* the well-formed lines of the log the run reads (none without a readable log)
SourceLines ==
    IF argv.path.has_git /\ argv.path.log_ok
    THEN SelectSeq(argv.path.lines, LAMBDA line : Len(line) >= 4)
    ELSE << >>

\* both date options, where given, are well-formed
DatesValid ==
    /\ TruthyStr(argv.since) => Strptime(argv.since[1]) /= ValueError
    /\ TruthyStr(argv.until) => Strptime(argv.until[1]) /= ValueError

DateBound(opt) == IF TruthyStr(opt) THEN Strptime(opt[1]) ELSE None

FilterSupplied == argv.since /= None \/ argv.until /= None \/ argv.author /= None

\* positions of the well-formed lines that pass every supplied filter
Survivors ==
    {i \in 1..Len(SourceLines) :
        Passes(SourceLines[i][2], SourceLines[i][4],
               DateBound(argv.since), DateBound(argv.until), argv.author)}

Succeeded == pc = "done" /\ exit_code = Some(0)

\* C2: when a filter was supplied and no record survives it, the run ends in
\* the "no commits matching the specified filters" error with exit status 1;
\* that outcome differs from "no commits found or not a git repository",
\* which is reached only when the unfiltered source is absent or empty; and
\* no run produces statistics from an empty record set after a filter was
\* supplied.
C2_EmptyAfterFilterIsDistinctError ==
    pc = "done" =>
        /\ (DatesValid /\ SourceLines /= << >> /\ FilterSupplied /\ Survivors = {})
              => (output = ErrorOut(ErrNoMatch) /\ exit_code = Some(1))
        /\ output = ErrorOut(ErrNoRepo) => (SourceLines = << >> /\ exit_code = Some(1))
        /\ output = ErrorOut(ErrNoMatch) => (SourceLines /= << >> /\ FilterSupplied)
        /\ (exit_code = Some(0) /\ FilterSupplied)
              => (Survivors /= {} /\ output.total_commits = Cardinality(Survivors))

\* C2 witness: a repository with commits, an author filter nobody matches,
\* and the run has ended in the filter error.
C2_Witness ==
    /\ pc = "done"
    /\ SourceLines /= << >>
    /\ argv.since = None /\ argv.until = None /\ argv.author = Some(<<"z">>)
    /\ output = ErrorOut(ErrNoMatch)
    /\ exit_code = Some(1)

\* the active record sequence of the run: the parsed commits in chronological
\* order, narrowed to those passing every supplied filter
Active ==
    LET all == get_commit_stats(argv.path)[1].commits
    IN  Pick(all, {i \in 1..Len(all) :
                      Passes(all[i].author, all[i].date,
                             DateBound(argv.since), DateBound(argv.until), argv.author)})

\* C3: in every run that produces a snapshot every emitted field (total
\* commits, distinct authors, first/last commit, author stats and their
\* percentages, weekly and hourly buckets, streak summary) is computed from
\* the one active record sequence, so all percentages share its length as
\* their denominator.
C3_SnapshotFromOneActiveSequence ==
    Succeeded =>
        LET A     == Active
            dates == {A[i].date.ord : i \in 1..Len(A)}
        IN
        /\ commits = A
        /\ output.total_commits = Len(A)
        /\ output.total_authors = Cardinality({A[i].author : i \in 1..Len(A)})
        /\ output.first_commit = Strftime(A[1].date.ord)
        /\ output.last_commit = Strftime(A[Len(A)].date.ord)
        /\ \A i \in 1..Len(output.authors) :
              /\ output.authors[i].commits = Cardinality(ByAuthor(A, output.authors[i].author))
              /\ output.authors[i].percentage = Pct(output.authors[i].commits, Len(A))
        /\ \A k \in 1..7 :
              /\ output.weekly_activity[k].commits =
                    Cardinality({i \in 1..Len(A) : DayIndex(A[i].date.ord) = k - 1})
              /\ output.kind = "json" =>
                    output.weekly_activity[k].percentage =
                        Pct(output.weekly_activity[k].commits, Len(A))
        /\ output.kind = "json" =>
              \A k \in 1..24 :
                  /\ output.hourly_activity[k].commits =
                        Cardinality({i \in 1..Len(A) : A[i].date.hour = k - 1})
                  /\ output.hourly_activity[k].percentage =
                        Pct(output.hourly_activity[k].commits, Len(A))
        /\ output.kind = "terminal" =>
              \A k \in 1..Len(output.peak_hours) :
                  /\ output.peak_hours[k].commits =
                        Cardinality({i \in 1..Len(A) :
                                        A[i].date.hour = output.peak_hours[k].hour})
                  /\ output.peak_hours[k].percentage =
                        Pct(output.peak_hours[k].commits, Len(A))
        /\ output.streaks.longest_streak = Max(RunLengths(dates))
        /\ output.streaks.total_active_days = Cardinality(dates)

\* C3 witness: a filter dropped one of two commits by different authors and
\* the JSON snapshot reports one commit, one author and a 100% share.
C3_Witness ==
    /\ Succeeded
    /\ output.kind = "json"
    /\ filters_applied /= << >>
    /\ Len(SourceLines) = 2
    /\ SourceLines[1][2] /= SourceLines[2][2]
    /\ output.total_commits = 1
    /\ output.total_authors = 1
    /\ Len(output.authors) = 1
    /\ output.authors[1].percentage = Pct(1, 1)

\* C8: in every produced snapshot the reported first and last commit are the
\* chronological minimum and maximum timestamps of the active record set,
\* whatever the order in which the log delivered the records.
C8_FirstLastAreChronologicalExtremes ==
    Succeeded =>
        LET instants == {Instant(commits[i].date) : i \in 1..Len(commits)}
        IN  /\ \E i \in 1..Len(commits) :
                  /\ Instant(commits[i].date) = Min(instants)
                  /\ output.first_commit = Strftime(commits[i].date.ord)
            /\ \E i \in 1..Len(commits) :
                  /\ Instant(commits[i].date) = Max(instants)
                  /\ output.last_commit = Strftime(commits[i].date.ord)

\* C8 witness: the log delivered the later commit first, and the snapshot
\* still reports the earlier one as first commit.
C8_Witness ==
    /\ Succeeded
    /\ Len(argv.path.lines) = 2
    /\ Len(SourceLines) = 2
    /\ Len(commits) = 2
    /\ Instant(SourceLines[1][4]) > Instant(SourceLines[2][4])
    /\ output.first_commit = Strftime(SourceLines[2][4].ord)
    /\ output.last_commit = Strftime(SourceLines[1][4].ord)
    /\ output.first_commit /= output.last_commit

\* the selection C10 describes: the first N entries when N >= 1, else all
FirstNOrAll(author_stats, top) ==
    IF top /= None /\ top[1] >= 1 THEN Take(author_stats, top[1]) ELSE author_stats

\* C10: for every value of the top option (absent, zero, negative, positive)
\* the JSON path and the terminal path select the same author entries from
\* the full ranked list: its first N entries when N >= 1 and the full list
\* otherwise, each entry as computed against the whole filtered record set.
C10_BothPathsSelectFirstNOrAll ==
    Succeeded =>
        output.authors = FirstNOrAll(get_author_stats(commits), argv.top)

====
